---- MODULE Spec2Model ----
(***************************************************************************)
(* The undo/redo history of the drawing board component                    *)
(* (src/components/DrawingBoard.vue).                                      *)
(*                                                                         *)
(* The canvas is one row of CanvasWidth pixels; its raster buffer is the   *)
(* set of painted pixels.  An ImageData snapshot is a copy of that set.    *)
(* Every handler of the component is an operator from the component's      *)
(* state (a record) to its next state; the actions apply the handlers to   *)
(* the current state.                                                      *)
(***************************************************************************)
EXTENDS Integers, Sequences, FiniteSets, TLC

VARIABLES
    mounted,    \* onMounted has run (the canvas and the listeners exist)
    ctx,        \* ctx # null
    canvas,     \* the displayed raster buffer
    isDrawing,
    undoStack,
    redoStack,
    lastX,      \* lastX (lastY: the canvas is one row)
    lastOp,     \* history: the handler that ran last
    pre,        \* history: the component's state before that handler ran
    preOp,      \* history: the handler that ran before it
    strokeRun,  \* history: strokes committed since mount, -1 once any
                \*   other operation has run (or before mount)
    steps       \* history: handler invocations of this run

vars == <<mounted, ctx, canvas, isDrawing, undoStack, redoStack, lastX,
          lastOp, pre, preOp, strokeRun, steps>>

----------------------------------------------------------------------------
(* Bounds and constants *)

\* saveState keeps at most this many snapshots
MaxHistory == 50

\* width of the modelled canvas row (pixels 0 .. CanvasWidth-1)
CanvasWidth == 2

\* handler invocations explored in one run
MaxSteps == 6

\* longest sequence of undo/redo calls played from a reached state
MaxOps == 5

\* undos played in a row from a reached state (besides as many as it allows)
MaxRounds == 3

\* the boards the exploration starts from hold at least
\* MaxHistory - NearFull snapshots (or none: the unmounted component)
NearFull == 2

Points == 0 .. (CanvasWidth - 1)

Blank == {}

\* undefined (an array read past its end); no raster buffer equals it
Undefined == {-1}

Keys == {"z", "Z", "y", "Y", "x"}

KeyEvents == [ctrlKey : BOOLEAN, metaKey : BOOLEAN, shiftKey : BOOLEAN, key : Keys]

MouseEvents == [offsetX : Points]

RectLefts == {0, 1}

TouchEvents ==
    {[clientX |-> c, rectLeft |-> r] : <<c, r>> \in
        {cr \in (0 .. CanvasWidth) \X RectLefts : (cr[1] - cr[2]) \in Points}}

----------------------------------------------------------------------------
(* The component's state as a record *)

State ==
    [ctx |-> ctx, canvas |-> canvas, isDrawing |-> isDrawing,
     undoStack |-> undoStack, redoStack |-> redoStack, lastX |-> lastX]

toLowerCase(k) ==
    CASE k = "Z" -> "z"
      [] k = "Y" -> "y"
      [] OTHER -> k

\* Array.prototype.pop leaves an empty array empty
Pop(seq) == IF seq = <<>> THEN seq ELSE SubSeq(seq, 1, Len(seq) - 1)

\* arr[arr.length - 1]
Top(seq) == IF seq = <<>> THEN Undefined ELSE seq[Len(seq)]

getImageData(s) == s.canvas

\* putImageData throws a TypeError on a non-ImageData argument
putImageData(s, img) ==
    IF img = Undefined THEN s ELSE [s EXCEPT !.canvas = img]

canUndoLoose(s) == Len(s.undoStack) > 0

canUndo(s) == Len(s.undoStack) > 1

canRedoLoose(s) == Len(s.redoStack) >= 0

canRedo(s) == Len(s.redoStack) > 0

saveStateNoShift(s) ==
    IF ~s.ctx THEN s
    ELSE [s EXCEPT !.undoStack = Append(s.undoStack, getImageData(s)),
                   !.redoStack = <<>>]

saveStateKeepRedo(s) ==
    IF ~s.ctx THEN s
    ELSE LET pushed == Append(s.undoStack, getImageData(s))
         IN  [s EXCEPT !.undoStack =
                          IF Len(pushed) > MaxHistory THEN Tail(pushed) ELSE pushed]

saveStateEarlyShift(s) ==
    IF ~s.ctx THEN s
    ELSE LET pushed == Append(s.undoStack, getImageData(s))
         IN  [s EXCEPT !.undoStack =
                          IF Len(pushed) >= MaxHistory THEN Tail(pushed) ELSE pushed,
                       !.redoStack = <<>>]

saveStateDropsNewest(s) ==
    IF ~s.ctx THEN s
    ELSE LET pushed == Append(s.undoStack, getImageData(s))
         IN  [s EXCEPT !.undoStack =
                          IF Len(pushed) > MaxHistory THEN Pop(pushed) ELSE pushed,
                       !.redoStack = <<>>]

saveStateNoGuard(s) ==
    LET pushed == Append(s.undoStack, getImageData(s))
    IN  [s EXCEPT !.undoStack =
                     IF Len(pushed) > MaxHistory THEN Tail(pushed) ELSE pushed,
                  !.redoStack = <<>>]

saveState(s) ==
    IF ~s.ctx THEN s
    ELSE LET pushed == Append(s.undoStack, getImageData(s))
         IN  [s EXCEPT !.undoStack =
                          IF Len(pushed) > MaxHistory THEN Tail(pushed) ELSE pushed,
                       !.redoStack = <<>>]

onMounted(s, gotContext) ==
    IF gotContext THEN saveState([s EXCEPT !.ctx = TRUE]) ELSE s

undoPushesRestored(s) ==
    IF ~s.ctx \/ ~canUndo(s) THEN s
    ELSE LET popped == Pop(s.undoStack)
             lastState == Top(popped)
         IN  putImageData([s EXCEPT !.redoStack = Append(s.redoStack, lastState),
                                    !.undoStack = popped],
                          lastState)

undo(s) ==
    IF ~s.ctx \/ ~canUndo(s) THEN s
    ELSE LET currentState == getImageData(s)
             popped == Pop(s.undoStack)
             lastState == Top(popped)
         IN  putImageData([s EXCEPT !.redoStack = Append(s.redoStack, currentState),
                                    !.undoStack = popped],
                          lastState)

redoKeepsCanvas(s) ==
    IF ~s.ctx \/ ~canRedo(s) THEN s
    ELSE LET currentState == getImageData(s)
         IN  putImageData([s EXCEPT !.redoStack = Pop(s.redoStack),
                                    !.undoStack = Append(s.undoStack, currentState)],
                          currentState)

redoNoPop(s) ==
    IF ~s.ctx \/ ~canRedo(s) THEN s
    ELSE LET redoState == Top(s.redoStack)
             currentState == getImageData(s)
         IN  putImageData([s EXCEPT !.undoStack = Append(s.undoStack, currentState)],
                          redoState)

redo(s) ==
    IF ~s.ctx \/ ~canRedo(s) THEN s
    ELSE LET redoState == Top(s.redoStack)
             currentState == getImageData(s)
         IN  putImageData([s EXCEPT !.redoStack = Pop(s.redoStack),
                                    !.undoStack = Append(s.undoStack, currentState)],
                          redoState)

handleKeyDownNoLowerCase(s, e) ==
    IF (e.ctrlKey \/ e.metaKey) /\ e.key = "z"
    THEN IF e.shiftKey THEN redo(s) ELSE undo(s)
    ELSE IF (e.ctrlKey \/ e.metaKey) /\ e.key = "y"
         THEN redo(s)
         ELSE s

handleKeyDown(s, e) ==
    IF (e.ctrlKey \/ e.metaKey) /\ toLowerCase(e.key) = "z"
    THEN IF e.shiftKey THEN redo(s) ELSE undo(s)
    ELSE IF (e.ctrlKey \/ e.metaKey) /\ toLowerCase(e.key) = "y"
         THEN redo(s)
         ELSE s

startDrawing(s, e) == [s EXCEPT !.isDrawing = TRUE, !.lastX = e.offsetX]

\* beginPath, moveTo(a), lineTo(b), stroke: the pixels from a to b are painted
strokeLine(s, a, b) ==
    [s EXCEPT !.canvas = @ \cup {p \in Points : (a <= p /\ p <= b) \/ (b <= p /\ p <= a)}]

drawNoGuard(s, e) ==
    IF ~s.ctx THEN s
    ELSE [strokeLine(s, s.lastX, e.offsetX) EXCEPT !.lastX = e.offsetX]

draw(s, e) ==
    IF ~s.isDrawing \/ ~s.ctx THEN s
    ELSE [strokeLine(s, s.lastX, e.offsetX) EXCEPT !.lastX = e.offsetX]

handleTouchStart(s, e) ==
    [s EXCEPT !.lastX = e.clientX - e.rectLeft, !.isDrawing = TRUE]

handleTouchMove(s, e) ==
    IF ~s.isDrawing \/ ~s.ctx THEN s
    ELSE LET x == e.clientX - e.rectLeft
         IN  [strokeLine(s, s.lastX, x) EXCEPT !.lastX = x]

stopDrawingKeepsDrawing(s) ==
    IF s.isDrawing THEN saveState(s) ELSE s

stopDrawing(s) ==
    IF s.isDrawing THEN [saveState(s) EXCEPT !.isDrawing = FALSE] ELSE s

clearCanvas(s) ==
    IF ~s.ctx THEN s ELSE saveState([s EXCEPT !.canvas = Blank])

----------------------------------------------------------------------------
(* Initial states and actions *)

\* The component after construction (lines 70-78).
Constructed ==
    /\ mounted = FALSE
    /\ ctx = FALSE
    /\ canvas = Blank
    /\ isDrawing = FALSE
    /\ undoStack = <<>>
    /\ redoStack = <<>>
    /\ lastX = 0
    /\ strokeRun = -1

\* A board mounted with a context on which the canvas was then clicked k - 1
\* times at pixel 0 (mousedown, mouseup, no move): every click commits the
\* unchanged blank buffer.
Clicked(k) ==
    /\ mounted = TRUE
    /\ ctx = TRUE
    /\ canvas = Blank
    /\ isDrawing = FALSE
    /\ undoStack = [i \in 1 .. k |-> Blank]
    /\ redoStack = <<>>
    /\ lastX = 0
    /\ strokeRun = k - 1

Init ==
    /\ \/ Constructed
       \/ \E k \in (MaxHistory - NearFull) .. MaxHistory : Clicked(k)
    /\ lastOp = "none"
    /\ pre = State
    /\ preOp = "none"
    /\ steps = 0

\* the component takes state s after handler op ran
Handled(s, op) ==
    /\ steps < MaxSteps
    /\ ctx' = s.ctx
    /\ canvas' = s.canvas
    /\ isDrawing' = s.isDrawing
    /\ undoStack' = s.undoStack
    /\ redoStack' = s.redoStack
    /\ lastX' = s.lastX
    /\ lastOp' = op
    /\ pre' = State
    /\ preOp' = lastOp
    /\ steps' = steps + 1

Mount ==
    /\ ~mounted
    /\ mounted' = TRUE
    /\ \E gotContext \in BOOLEAN :
          /\ Handled(onMounted(State, gotContext), "onMounted")
          /\ strokeRun' = IF gotContext THEN 0 ELSE -1

MouseDown ==
    /\ mounted
    /\ \E e \in MouseEvents : Handled(startDrawing(State, e), "startDrawing")
    /\ UNCHANGED <<mounted, strokeRun>>

MouseMove ==
    /\ mounted
    /\ \E e \in MouseEvents : Handled(draw(State, e), "draw")
    /\ UNCHANGED <<mounted, strokeRun>>

TouchStart ==
    /\ mounted
    /\ \E e \in TouchEvents : Handled(handleTouchStart(State, e), "handleTouchStart")
    /\ UNCHANGED <<mounted, strokeRun>>

TouchMove ==
    /\ mounted
    /\ \E e \in TouchEvents : Handled(handleTouchMove(State, e), "handleTouchMove")
    /\ UNCHANGED <<mounted, strokeRun>>

StrokeEnd ==
    /\ Handled(stopDrawing(State), "stopDrawing")
    /\ strokeRun' = IF isDrawing /\ strokeRun >= 0 THEN strokeRun + 1 ELSE strokeRun
    /\ UNCHANGED mounted

MouseUp == mounted /\ StrokeEnd

MouseLeave == mounted /\ StrokeEnd

TouchEnd == mounted /\ StrokeEnd

ClickUndo ==
    /\ mounted
    /\ canUndo(State)
    /\ Handled(undo(State), "undo")
    /\ strokeRun' = -1
    /\ UNCHANGED mounted

ClickRedo ==
    /\ mounted
    /\ canRedo(State)
    /\ Handled(redo(State), "redo")
    /\ strokeRun' = -1
    /\ UNCHANGED mounted

ClickClear ==
    /\ mounted
    /\ Handled(clearCanvas(State), "clearCanvas")
    /\ strokeRun' = -1
    /\ UNCHANGED mounted

KeyDown ==
    /\ mounted
    /\ \E e \in KeyEvents : Handled(handleKeyDown(State, e), "handleKeyDown")
    /\ strokeRun' = -1
    /\ UNCHANGED mounted

Next ==
    \/ Mount
    \/ MouseDown
    \/ MouseMove
    \/ MouseUp
    \/ MouseLeave
    \/ TouchStart
    \/ TouchMove
    \/ TouchEnd
    \/ ClickUndo
    \/ ClickRedo
    \/ ClickClear
    \/ KeyDown

Spec == Init /\ [][Next]_vars

----------------------------------------------------------------------------
(* Properties *)

RECURSIVE UndoTimes(_, _)
\* n consecutive calls of undo().  (t = t is true; testing it makes TLC
\* evaluate each call before the next one, instead of nesting n evaluations.)
UndoTimes(s, n) ==
    IF n = 0 THEN s
    ELSE LET t == undo(s)
         IN  IF t = t THEN UndoTimes(t, n - 1) ELSE s

\* the stroke commit or clear that ran last
Committed ==
    \/ lastOp = "clearCanvas"
    \/ lastOp = "stopDrawing" /\ pre.isDrawing

\* C1: in every reachable state the undo stack holds at most 50 snapshots,
\* also after a redo, which pushes without a size check.
C1_UndoStackBounded == Len(undoStack) <= MaxHistory

\* a redo has just pushed the 50th snapshot
C1_Witness ==
    /\ lastOp = "redo"
    /\ Len(pre.undoStack) = MaxHistory - 1
    /\ Len(undoStack) = MaxHistory

\* C2 (as claimed): with a context and no stroke in progress, the last element
\* of the undo stack is the displayed canvas buffer.
C2_TopIsDisplayed ==
    (mounted /\ ctx /\ ~isDrawing) => Top(undoStack) = canvas

\* C3: a committed action (a stroke ended by stopDrawing while isDrawing, or
\* clearCanvas) leaves the redo stack empty.
C3_CommitClearsRedo == Committed => redoStack = <<>>

\* a stroke was committed while snapshots were awaiting redo
C3_Witness ==
    /\ lastOp = "stopDrawing"
    /\ pre.isDrawing
    /\ pre.redoStack # <<>>
    /\ redoStack = <<>>

\* C4: on a board mounted with a context, after exactly N committed strokes
\* (N <= 49) and nothing else the undo stack has N + 1 entries, and N undos
\* then leave the blank canvas, 1 entry on the undo stack and N on the redo
\* stack.
C4_StrokesThenUndos ==
    (ctx /\ ~isDrawing /\ strokeRun >= 0 /\ strokeRun <= MaxHistory - 1) =>
        /\ Len(undoStack) = strokeRun + 1
        /\ LET r == UndoTimes(State, strokeRun)
           IN  /\ r.canvas = Blank
               /\ Len(r.undoStack) = 1
               /\ Len(r.redoStack) = strokeRun

\* 49 strokes committed, the last of them painted
C4_Witness ==
    /\ ctx
    /\ ~isDrawing
    /\ strokeRun = MaxHistory - 1
    /\ lastOp = "stopDrawing"
    /\ canvas # Blank

\* C5: where undo is enabled, undo() then redo() leaves the displayed buffer
\* as it was before the undo.
C5_UndoRedoRestores ==
    canUndo(State) => redo(undo(State)).canvas = canvas

\* a redo right after an undo, each of which changed the display
C5_Witness ==
    /\ lastOp = "redo"
    /\ preOp = "undo"
    /\ canvas # pre.canvas
    /\ canUndo(State)

\* C6: once mounted with a context, the undo stack is never empty.
C6_UndoStackNonEmpty == (mounted /\ ctx) => Len(undoStack) >= 1

\* an undo has taken the stack down to its last entry
C6_Witness ==
    /\ mounted
    /\ ctx
    /\ lastOp \in {"undo", "handleKeyDown"}
    /\ Len(pre.undoStack) = 2
    /\ Len(undoStack) = 1

\* C7: undo() with fewer than 2 entries and redo() with an empty redo stack
\* change nothing.
C7_NoOps ==
    /\ Len(undoStack) < 2 => undo(State) = State
    /\ redoStack = <<>> => redo(State) = State

\* a shortcut arrived with one snapshot and nothing to redo, mid-stroke over a
\* painted canvas, and changed nothing
C7_Witness ==
    /\ ctx
    /\ lastOp = "handleKeyDown"
    /\ Len(undoStack) = 1
    /\ redoStack = <<>>
    /\ canvas # Blank
    /\ State = pre

\* C8: saveState on a stack of 50 leaves 50: the oldest is gone, the other 49
\* keep their order, the captured snapshot is last.
C8_EvictsOldest ==
    (Committed /\ pre.ctx /\ Len(pre.undoStack) = MaxHistory) =>
        /\ Len(undoStack) = MaxHistory
        /\ undoStack = Append(Tail(pre.undoStack), canvas)

\* a commit on a full stack whose newest entry was painted and differs from
\* the snapshot captured
C8_Witness ==
    /\ Committed
    /\ pre.ctx
    /\ Len(pre.undoStack) = MaxHistory
    /\ pre.undoStack[MaxHistory] # Blank
    /\ canvas # pre.undoStack[MaxHistory]

\* C9: without a context both stacks stay empty and the canvas is never
\* modified.
C9_NoContextNoOps ==
    (mounted /\ ~ctx) => (undoStack = <<>> /\ redoStack = <<>> /\ canvas = Blank)

\* a stroke was ended on a board mounted without a context
C9_Witness ==
    /\ mounted
    /\ ~ctx
    /\ lastOp = "stopDrawing"
    /\ pre.isDrawing
    /\ preOp \in {"draw", "handleTouchMove"}

\* C10: Ctrl/Cmd+Z without Shift acts as undo(); Ctrl/Cmd+Shift+Z and
\* Ctrl/Cmd+Y act as redo(); any other keydown changes nothing.
C10_Shortcuts ==
    \A e \in KeyEvents :
        LET mod == e.ctrlKey \/ e.metaKey
            isZ == e.key \in {"z", "Z"}
            isY == e.key \in {"y", "Y"}
            after == handleKeyDown(State, e)
        IN  /\ (mod /\ isZ /\ ~e.shiftKey) => after = undo(State)
            /\ (mod /\ ((isZ /\ e.shiftKey) \/ isY)) => after = redo(State)
            /\ (~mod \/ (~isZ /\ ~isY)) => after = State

\* a shortcut has redone a snapshot that a shortcut had undone
C10_Witness ==
    /\ lastOp = "handleKeyDown"
    /\ preOp = "handleKeyDown"
    /\ State = redo(pre)
    /\ canvas # pre.canvas

\* the undo stack after exactly one snapshot of buffer img was pushed on stack
PushedOnce(stack, img) ==
    IF Len(stack) = MaxHistory THEN Append(Tail(stack), img) ELSE Append(stack, img)

\* C11: a stroke is committed exactly once: the end event that finds
\* isDrawing true pushes one snapshot, the end events after it push nothing,
\* and an end event that finds isDrawing false changes neither stack nor
\* isDrawing.
C11_CommittedOnce ==
    /\ (lastOp = "stopDrawing" /\ pre.isDrawing /\ ctx) =>
           /\ undoStack = PushedOnce(pre.undoStack, pre.canvas)
           /\ ~isDrawing
    /\ (lastOp = "stopDrawing" /\ preOp = "stopDrawing") => State = pre
    /\ (lastOp = "stopDrawing" /\ ~pre.isDrawing) => State = pre
    /\ isDrawing => stopDrawing(stopDrawing(State)) = stopDrawing(State)

\* a second end event arrived after the one that committed a painted stroke,
\* and pushed nothing
C11_Witness ==
    /\ ctx
    /\ lastOp = "stopDrawing"
    /\ preOp = "stopDrawing"
    /\ canvas # Blank
    /\ Len(undoStack) >= 2
    /\ undoStack[Len(undoStack)] # undoStack[Len(undoStack) - 1]
    /\ State = pre

\* a whole mouse stroke: down at e1, move to e2, up
Stroke(s, e1, e2) == stopDrawing(draw(startDrawing(s, e1), e2))

\* C12 (as claimed): with no stroke in progress, committing a stroke or a
\* clear and then calling undo() once shows the canvas that was displayed
\* before the stroke began or before the clear, also right after a redo.
C12_UndoRestoresPrevious ==
    (mounted /\ ctx /\ ~isDrawing) =>
        /\ \A e1, e2 \in MouseEvents :
               undo(Stroke(State, e1, e2)).canvas = canvas
        /\ undo(clearCanvas(State)).canvas = canvas

\* the sequences of at most MaxOps undo/redo calls
OpSeqs == UNION {[1 .. k -> {"undo", "redo"}] : k \in 0 .. MaxOps}

RECURSIVE Play(_, _)
\* the calls of ops made in order from state s (t = t: as in UndoTimes)
Play(s, ops) ==
    IF ops = <<>> THEN s
    ELSE LET t == IF Head(ops) = "undo" THEN undo(s) ELSE redo(s)
         IN  IF t = t THEN Play(t, Tail(ops)) ELSE s

RECURSIVE Cursor(_, _, _)
\* the cursor of a linear history S_0 .. S_n after the calls of ops from c
Cursor(n, c, ops) ==
    IF ops = <<>> THEN c
    ELSE Cursor(n,
                IF Head(ops) = "undo"
                THEN (IF c > 0 THEN c - 1 ELSE c)
                ELSE (IF c < n THEN c + 1 ELSE c),
                Tail(ops))

\* C13 (as claimed): after strokes S1 .. Sn from a blank mount (n <= 49, the
\* undo stack then holds S_0 .. S_n) and any sequence of undo/redo calls, the
\* canvas shows S_c, c being the cursor of the linear history.
C13_RefinesLinearHistory ==
    (ctx /\ ~isDrawing /\ strokeRun >= 0 /\ strokeRun <= MaxHistory - 1
         /\ Len(undoStack) = strokeRun + 1) =>
        \A ops \in OpSeqs :
            Play(State, ops).canvas = undoStack[Cursor(strokeRun, strokeRun, ops) + 1]

\* snapshots stored on both stacks
Stored(s) == Len(s.undoStack) + Len(s.redoStack)

\* C14: an effective undo moves one snapshot from the undo stack to the redo
\* stack, an effective redo one the other way, and the two stacks together
\* never hold more than 50 snapshots.
C14_SnapshotsConserved ==
    /\ Stored(State) <= MaxHistory
    /\ (ctx /\ canUndo(State)) =>
           /\ Len(undo(State).undoStack) = Len(undoStack) - 1
           /\ Len(undo(State).redoStack) = Len(redoStack) + 1
    /\ (ctx /\ canRedo(State)) =>
           /\ Len(redo(State).undoStack) = Len(undoStack) + 1
           /\ Len(redo(State).redoStack) = Len(redoStack) - 1
    /\ lastOp \in {"undo", "redo", "handleKeyDown"} => Stored(State) = Stored(pre)

\* a redo after undos on a board that stores 50 snapshots
C14_Witness ==
    /\ lastOp = "redo"
    /\ Stored(State) = MaxHistory
    /\ Len(pre.redoStack) >= 2
    /\ Len(undoStack) = Len(pre.undoStack) + 1
    /\ Len(redoStack) = Len(pre.redoStack) - 1

RECURSIVE RedoTimes(_, _)
\* n consecutive calls of redo() (t = t: as in UndoTimes)
RedoTimes(s, n) ==
    IF n = 0 THEN s
    ELSE LET t == redo(s)
         IN  IF t = t THEN RedoTimes(t, n - 1) ELSE s

\* the numbers of undos played: 1 .. MaxRounds and the most that take effect
Rounds ==
    {k \in (1 .. MaxRounds) \cup {Len(undoStack) - 1} :
        1 <= k /\ k <= Len(undoStack) - 1}

\* C15: with no stroke in progress, k effective undos followed by k redos
\* show the canvas displayed before the first undo and leave the redo stack
\* as it was.
C15_RedoReplaysUndos ==
    (ctx /\ ~isDrawing) =>
        \A k \in Rounds :
            LET r == RedoTimes(UndoTimes(State, k), k)
            IN  /\ r.canvas = canvas
                /\ r.redoStack = redoStack

\* an undo has left a painted canvas displayed and a snapshot to redo, and
\* two more undos take effect and change the display
C15_Witness ==
    /\ ctx
    /\ ~isDrawing
    /\ lastOp = "undo"
    /\ redoStack # <<>>
    /\ canvas # Blank
    /\ 2 \in Rounds
    /\ UndoTimes(State, 2).canvas # canvas
    /\ Len(UndoTimes(State, 2).redoStack) = Len(redoStack) + 2

\* C16: a mouse or touch move that finds isDrawing false changes neither the
\* canvas nor a stack; a move paints only between a pointer-down
\* (startDrawing, handleTouchStart) and the next stroke end (stopDrawing).
C16_MovesPaintOnlyInStroke ==
    /\ ~isDrawing =>
           /\ \A e \in MouseEvents : draw(State, e) = State
           /\ \A e \in TouchEvents : handleTouchMove(State, e) = State
    /\ (lastOp \in {"draw", "handleTouchMove"} /\ ~pre.isDrawing) => State = pre
    /\ (lastOp \in {"draw", "handleTouchMove"} /\ canvas # pre.canvas) => pre.isDrawing
    /\ (isDrawing /\ ~pre.isDrawing) => lastOp \in {"startDrawing", "handleTouchStart"}
    /\ (~isDrawing /\ pre.isDrawing) => lastOp = "stopDrawing"

\* after a committed stroke the mouse moved over the canvas, away from the
\* last point, with pixels still blank, and nothing changed
C16_Witness ==
    /\ ctx
    /\ lastOp = "draw"
    /\ preOp = "stopDrawing"
    /\ ~pre.isDrawing
    /\ canvas # Points
    /\ canvas # Blank
    /\ State = pre

====
